---------------------------- MODULE Spec2Model ----------------------------
(***************************************************************************)
(* node-version-utils (src/index.js): getSemanticVersion, compareVersions  *)
(* and isSpecificVersion, modelled over strings represented as sequences   *)
(* of one-character strings.                                               *)
(*                                                                         *)
(* A JavaScript value handed to a function is a record [t, s]: t is the    *)
(* type tag ("string", "null", "undefined") and s the characters.          *)
(* The outcome of a call is a record [kind, name, val]: kind is "return"   *)
(* or "throw", name the error class of a throw, val the returned value or  *)
(* the error message.                                                      *)
(***************************************************************************)
EXTENDS Integers, Sequences, FiniteSets, TLC

VARIABLES pc, call, result

vars == <<pc, call, result>>

---------------------------------------------------------------------------
(* Bounds of the explored inputs.                                          *)

\* longest free-form string handed to getSemanticVersion / isSpecificVersion
MaxLen == 4
\* longest free-form string handed to compareVersions (both arguments)
MaxCmpLen == 2
\* largest number used as a component of a structured version
MaxNum == 2
\* longest pre-release text of a structured version
MaxPreLen == 2
\* longest free-form range handed to isSpecificVersion
MaxRangeLen == 3

---------------------------------------------------------------------------
(* Characters and strings.                                                 *)

Digits == {"0", "1", "2", "3", "4", "5", "6", "7", "8", "9"}

LowerSeq ==
    <<"a", "b", "c", "d", "e", "f", "g", "h", "i", "j", "k", "l", "m",
      "n", "o", "p", "q", "r", "s", "t", "u", "v", "w", "x", "y", "z">>

UpperSeq ==
    <<"A", "B", "C", "D", "E", "F", "G", "H", "I", "J", "K", "L", "M",
      "N", "O", "P", "Q", "R", "S", "T", "U", "V", "W", "X", "Y", "Z">>

LowerLetters == {LowerSeq[i] : i \in 1..Len(LowerSeq)}

UpperLetters == {UpperSeq[i] : i \in 1..Len(UpperSeq)}

Letters == LowerLetters \cup UpperLetters

\* Characters outside ASCII, and the vertical tab, are written as their
\* escape: "\\u2028" stands for the one character U+2028.

\* LineTerminator: the characters "." of a regular expression does not match
LineTerminators == {"\n", "\r", "\\u2028", "\\u2029"}

\* StrWhiteSpaceChar: the characters parseInt and String.prototype.trim skip
\* and \s of a regular expression matches
WhiteSpace ==
    {"\t", "\n", "\\u000b", "\f", "\r", " ", "\\u00a0", "\\u1680",
     "\\u2000", "\\u2001", "\\u2002", "\\u2003", "\\u2004", "\\u2005",
     "\\u2006", "\\u2007", "\\u2008", "\\u2009", "\\u200a", "\\u2028",
     "\\u2029", "\\u202f", "\\u205f", "\\u3000", "\\ufeff"}

DigitSeq == <<"0", "1", "2", "3", "4", "5", "6", "7", "8", "9">>

DigitVal(c) == (CHOOSE i \in 1..10 : DigitSeq[i] = c) - 1

\* number of consecutive characters of s, from index i on, that are in set
RunIn(s, i, set) ==
    IF i > Len(s) THEN 0 ELSE
    (CHOOSE j \in i..(Len(s) + 1) :
        /\ (j = Len(s) + 1 \/ s[j] \notin set)
        /\ \A k \in i..(j - 1) : s[k] \in set) - i

\* number of consecutive characters of s, from index i on, that are not in set
RunNotIn(s, i, set) ==
    IF i > Len(s) THEN 0 ELSE
    (CHOOSE j \in i..(Len(s) + 1) :
        /\ (j = Len(s) + 1 \/ s[j] \in set)
        /\ \A k \in i..(j - 1) : s[k] \notin set) - i

\* number of consecutive characters of s, from its end back, that are in set
RunBack(s, set) ==
    Len(s) - (CHOOSE j \in 0..Len(s) :
                 /\ (j = 0 \/ s[j] \notin set)
                 /\ \A k \in (j + 1)..Len(s) : s[k] \in set)

\* s from index i to its end
From(s, i) == SubSeq(s, i, Len(s))

\* whether index i of s holds character c
At(s, i, c) == i <= Len(s) /\ s[i] = c

\* whether some character of s is in set
HasCharIn(s, set) == \E i \in 1..Len(s) : s[i] \in set

\* n times the character c
Repeat(c, n) == SubSeq([i \in 1..n |-> c], 1, n)

\* decimal rendering of a small natural number
RECURSIVE NatToString(_)
NatToString(n) ==
    IF n < 10 THEN <<DigitSeq[n + 1]>>
    ELSE NatToString(n \div 10) \o <<DigitSeq[(n % 10) + 1]>>

\* all strings over chars of length at most n
StringsUpTo(chars, n) == UNION {[1..k -> chars] : k \in 0..n}

---------------------------------------------------------------------------
(* JavaScript values.                                                      *)

Str(s) == [t |-> "string", s |-> s]
Null == [t |-> "null", s |-> <<>>]
Undefined == [t |-> "undefined", s |-> <<>>]

Return(v) == [kind |-> "return", name |-> "", val |-> v]
Throw(class, msg) == [kind |-> "throw", name |-> class, val |-> msg]

---------------------------------------------------------------------------
(* JavaScript numbers.  parseInt returns a double; the integers it can     *)
(* return are written here as their decimal digits, so that no integer of  *)
(* the model is wider than an exponent or a digit.                         *)

\* decimal digits stripped of leading zeros
StripZeros(d) ==
    IF RunIn(d, 1, {"0"}) >= Len(d) THEN <<"0">>
    ELSE From(d, RunIn(d, 1, {"0"}) + 1)

\* a < b for naturals written in decimal
NatLess(a, b) ==
    \/ Len(a) < Len(b)
    \/ /\ Len(a) = Len(b)
       /\ \E i \in 1..Len(a) :
             /\ DigitVal(a[i]) < DigitVal(b[i])
             /\ \A j \in 1..(i - 1) : a[j] = b[j]

IsOdd(d) == DigitVal(d[Len(d)]) % 2 = 1

\* d \div 2
Halve(d) ==
    StripZeros(SubSeq([i \in 1..Len(d) |->
        DigitSeq[((IF i > 1 /\ IsOdd(<<d[i - 1]>>) THEN 10 ELSE 0)
                     + DigitVal(d[i])) \div 2 + 1]], 1, Len(d)))

\* 2 * d
Double(d) ==
    (IF DigitVal(d[1]) >= 5 THEN <<"1">> ELSE <<>>)
        \o [i \in 1..Len(d) |->
              DigitSeq[((2 * DigitVal(d[i])
                         + (IF i < Len(d) /\ DigitVal(d[i + 1]) >= 5
                            THEN 1 ELSE 0)) % 10) + 1]]

\* d + 1
Inc(d) ==
    IF RunBack(d, {"9"}) = Len(d) THEN <<"1">> \o Repeat("0", Len(d))
    ELSE SubSeq([i \in 1..Len(d) |->
                    IF i < Len(d) - RunBack(d, {"9"}) THEN d[i]
                    ELSE IF i = Len(d) - RunBack(d, {"9"})
                    THEN DigitSeq[DigitVal(d[i]) + 2]
                    ELSE "0"], 1, Len(d))

\* d - 1, for d > 0
Dec(d) ==
    StripZeros(SubSeq([i \in 1..Len(d) |->
        IF i < Len(d) - RunBack(d, {"0"}) THEN d[i]
        ELSE IF i = Len(d) - RunBack(d, {"0"}) THEN DigitSeq[DigitVal(d[i])]
        ELSE "9"], 1, Len(d)))

\* d * 2^n
RECURSIVE DoubleN(_, _)
DoubleN(d, n) ==
    IF n = 0 \/ d = <<"0">> THEN d
    ELSE IF n = 1 THEN Double(d)
    ELSE DoubleN(DoubleN(d, n \div 2), n - n \div 2)

\* 2^52 and 2^53: a double holds 53 bits
Pow52 == <<"4", "5", "0", "3", "5", "9", "9", "6", "2", "7", "3", "7", "0",
           "4", "9", "6">>

Pow53 == <<"9", "0", "0", "7", "1", "9", "9", "2", "5", "4", "7", "4", "0",
           "9", "9", "2">>

\* A natural read bit by bit from its low end: q is what is left, e the
\* number of bits dropped, r the last bit dropped and s whether a bit
\* dropped before it was 1.
DropBit(st) ==
    [q |-> Halve(st.q), e |-> st.e + 1, r |-> IsOdd(st.q), s |-> st.s \/ st.r]

RECURSIVE DropBits(_, _)
DropBits(st, n) ==
    IF n = 0 \/ st.q = <<"0">> THEN st
    ELSE IF n = 1 THEN DropBit(st)
    ELSE DropBits(DropBits(st, n \div 2), n - n \div 2)

\* bits are dropped until 53 are left
RECURSIVE DropTo53(_)
DropTo53(st) == IF NatLess(st.q, Pow53) THEN st ELSE DropTo53(DropBit(st))

\* a natural of n digits has more than (n - 1) * 3.3219 bits
BitsOver53(d) ==
    IF ((Len(d) - 1) * 33219) \div 10000 > 52
    THEN ((Len(d) - 1) * 33219) \div 10000 - 52 ELSE 0

Mantissa(d) ==
    DropTo53(DropBits([q |-> d, e |-> 0, r |-> FALSE, s |-> FALSE],
                      BitsOver53(d)))

\* round to nearest, ties to even
Rounded(st) ==
    [q |-> IF st.r /\ (st.s \/ IsOdd(st.q)) THEN Inc(st.q) ELSE st.q,
     e |-> st.e]

NaN == [nan |-> TRUE, inf |-> FALSE, neg |-> FALSE, val |-> <<"0">>]
Infinity(neg) == [nan |-> FALSE, inf |-> TRUE, neg |-> neg, val |-> <<"0">>]
Num(neg, d) == [nan |-> FALSE, inf |-> FALSE, neg |-> neg, val |-> d]

\* the double nearest to q * 2^e; from 2^1024 on it is Infinity
DoubleOf(neg, m) ==
    IF m.e > 971 \/ (m.e = 971 /\ m.q = Pow53) THEN Infinity(neg)
    ELSE Num(neg, DoubleN(m.q, m.e))

\* the double nearest to the natural d: d itself below 2^53
ToNumber(neg, d) ==
    IF NatLess(d, Pow53) THEN Num(neg, d)
    ELSE IF Len(d) > 309 THEN Infinity(neg)
    ELSE DoubleOf(neg, Rounded(Mantissa(d)))

\* parseInt(s, 10): leading white space is skipped, one sign is read, then
\* the longest run of digits; no digit at all gives NaN
ParseInt(s) ==
    LET i    == 1 + RunIn(s, 1, WhiteSpace)
        neg  == At(s, i, "-")
        j    == IF At(s, i, "-") \/ At(s, i, "+") THEN i + 1 ELSE i
        n    == RunIn(s, j, Digits)
    IN  IF n = 0 THEN NaN
        ELSE ToNumber(neg, StripZeros(SubSeq(s, j, j + n - 1)))

\* Number::toString of a double v = q * 2^e of 2^53 or more: the fewest
\* digits k such that a natural of k digits followed by zeros is nearer to
\* v than to any other double; lo4 and hi4 are four times the middles
\* between v and the doubles next to it, which round to v when q is even.
NearLow(c, lo4, even) ==
    NatLess(lo4, Double(Double(c))) \/ (even /\ lo4 = Double(Double(c)))

NearHigh(c, hi4, even) ==
    NatLess(Double(Double(c)), hi4) \/ (even /\ hi4 = Double(Double(c)))

\* the first k digits of v followed by zeros, and the next such natural
DownTo(v, k) == SubSeq(v, 1, k) \o Repeat("0", Len(v) - k)

UpTo(v, k) == Inc(SubSeq(v, 1, k)) \o Repeat("0", Len(v) - k)

\* which of the two is nearer to v (the even one when equally near)
UpIsNearer(v, k) ==
    \/ DigitVal(v[k + 1]) > 5
    \/ /\ DigitVal(v[k + 1]) = 5
       /\ \/ \E i \in (k + 2)..Len(v) : v[i] # "0"
          \/ IsOdd(<<v[k]>>)

ShortestWith(v, lo4, hi4, even) ==
    LET k == CHOOSE k \in 1..Len(v) :
                /\ \/ NearLow(DownTo(v, k), lo4, even)
                   \/ NearHigh(UpTo(v, k), hi4, even)
                /\ \A j \in 1..(k - 1) :
                      /\ ~NearLow(DownTo(v, j), lo4, even)
                      /\ ~NearHigh(UpTo(v, j), hi4, even)
    IN  IF k = Len(v) THEN v
        ELSE IF ~NearHigh(UpTo(v, k), hi4, even) THEN DownTo(v, k)
        ELSE IF ~NearLow(DownTo(v, k), lo4, even) THEN UpTo(v, k)
        ELSE IF UpIsNearer(v, k) THEN UpTo(v, k) ELSE DownTo(v, k)

\* the double below 2^52 * 2^e is nearer than the one above
ShortestOf(v, m) ==
    ShortestWith(v,
                 IF m.q = Pow52 THEN DoubleN(Dec(Double(Double(m.q))), m.e)
                 ELSE DoubleN(Dec(Double(m.q)), m.e + 1),
                 DoubleN(Inc(Double(m.q)), m.e + 1),
                 ~IsOdd(m.q))

\* digits below 10^21, else d[.ddd]e+n
Notation(d) ==
    IF Len(d) <= 21 THEN d
    ELSE <<d[1]>>
           \o (IF RunBack(d, {"0"}) = Len(d) - 1 THEN <<>>
               ELSE <<".">> \o SubSeq(d, 2, Len(d) - RunBack(d, {"0"})))
           \o <<"e", "+">> \o NatToString(Len(d) - 1)

\* String(number), as Array.prototype.join renders each element
NumberToString(x) ==
    IF x.nan THEN <<"N", "a", "N">>
    ELSE (IF x.neg /\ (x.inf \/ x.val # <<"0">>) THEN <<"-">> ELSE <<>>)
           \o (IF x.inf THEN <<"I", "n", "f", "i", "n", "i", "t", "y">>
               ELSE IF NatLess(x.val, Pow53) THEN x.val
               ELSE Notation(ShortestOf(x.val, Mantissa(x.val))))

---------------------------------------------------------------------------
(* getSemanticVersion                                                      *)

\* a variant of MinorExcluded: the class without its "\-"
MinorExcludedNoDash == {"[", "]", "."} \cup Letters

\* the class [^\[a-zA-Z\-\.\]] of the minor group excludes these characters
MinorExcluded == {"[", "]", "-", "."} \cup Letters

\* a variant of MatchVersion: the pattern anchored at the start of the input
MatchVersionAnchored(s) ==
    LET j  == 1 + RunIn(s, 1, Digits)
        j2 == IF At(s, j, ".") THEN j + 1 ELSE j
        n2 == RunNotIn(s, j2, MinorExcluded)
        j3 == j2 + n2
        j4 == IF At(s, j3, ".") THEN j3 + 1 ELSE j3
        n3 == RunNotIn(s, j4, LineTerminators)
    IN  IF j = 1 THEN [matched |-> FALSE, g1 |-> <<>>, g2def |-> FALSE,
                       g2 |-> <<>>, g3 |-> <<>>]
        ELSE [matched |-> TRUE,
              g1      |-> SubSeq(s, 1, j - 1),
              g2def   |-> n2 > 0,
              g2      |-> SubSeq(s, j2, j3 - 1),
              g3      |-> SubSeq(s, j4, j4 + n3 - 1)]

\* version.match(/(\d+)\.?([^\[a-zA-Z\-\.\]]+)?\.?(.*)/): the leftmost match
\* starts at the first digit; every later part is optional, so the greedy
\* choice of each part is the match
MatchVersion(s) ==
    LET i  == 1 + RunNotIn(s, 1, Digits)
        j  == i + RunIn(s, i, Digits)
        j2 == IF At(s, j, ".") THEN j + 1 ELSE j
        n2 == RunNotIn(s, j2, MinorExcluded)
        j3 == j2 + n2
        j4 == IF At(s, j3, ".") THEN j3 + 1 ELSE j3
        n3 == RunNotIn(s, j4, LineTerminators)
    IN  IF i > Len(s) THEN [matched |-> FALSE, g1 |-> <<>>, g2def |-> FALSE,
                            g2 |-> <<>>, g3 |-> <<>>]
        ELSE [matched |-> TRUE,
              g1      |-> SubSeq(s, i, j - 1),
              g2def   |-> n2 > 0,
              g2      |-> SubSeq(s, j2, j3 - 1),
              g3      |-> SubSeq(s, j4, j4 + n3 - 1)]

\* matchedVersion[3].match(/^(\d+)?[\-\._]?(.*)$/)
ParsePatch(t) ==
    LET d  == RunIn(t, 1, Digits)
        k  == d + 1
        k2 == IF At(t, k, "-") \/ At(t, k, ".") \/ At(t, k, "_")
              THEN k + 1 ELSE k
    IN  [matched |-> ~HasCharIn(From(t, k2), LineTerminators),
         g1def   |-> d > 0,
         g1      |-> SubSeq(t, 1, d),
         g2      |-> From(t, k2)]

\* matchedVersion[3].match(/^\d+$/)
AllDigits(t) == t # <<>> /\ \A i \in 1..Len(t) : t[i] \in Digits

\* the message of the error of line 25; the input is embedded between the
\* two fixed fragments
CannotConvert(version) ==
    <<"Cannot convert provided version (\"">> \o version
        \o <<"\") to semantic format">>

\* [majorVersion, minorVersion, patch] and preRelease of lines 28-52; the
\* number 0 that minorVersion and patch start as reads "0" to parseInt;
\* predef tells whether preRelease is not null
VersionParts(m) ==
    LET minor == IF m.g2def THEN m.g2 ELSE <<"0">>
        pp    == ParsePatch(m.g3)
    IN  IF AllDigits(m.g3)
        THEN [ok |-> TRUE, major |-> m.g1, minor |-> minor, patch |-> m.g3,
              predef |-> FALSE, pre |-> <<>>]
        ELSE IF m.g3 = <<>>
        THEN [ok |-> TRUE, major |-> m.g1, minor |-> minor, patch |-> <<"0">>,
              predef |-> FALSE, pre |-> <<>>]
        ELSE [ok     |-> pp.matched,
              major  |-> m.g1,
              minor  |-> minor,
              patch  |-> IF pp.g1def THEN pp.g1 ELSE <<"0">>,
              predef |-> pp.g2 # <<>>,
              pre    |-> pp.g2]

\* _.map([...], (n) => parseInt(n, 10)).join('.')
JoinParts(p) ==
    NumberToString(ParseInt(p.major)) \o <<".">>
        \o NumberToString(ParseInt(p.minor)) \o <<".">>
        \o NumberToString(ParseInt(p.patch))

getSemanticVersion(version, omitPreRelease) ==
    LET m == MatchVersion(version)
        p == VersionParts(m)
    IN  IF ~m.matched THEN Throw("Error", CannotConvert(version))
        ELSE IF ~p.ok
        THEN Throw("TypeError", <<"Cannot read property '1' of null">>)
        ELSE IF ~omitPreRelease /\ p.predef
        THEN Return(JoinParts(p) \o <<"-">> \o p.pre)
        ELSE Return(JoinParts(p))

---------------------------------------------------------------------------
(* The semver library: versions (semver.compare).                          *)

\* String.prototype.trim
TrimLeft(s) == From(s, 1 + RunIn(s, 1, WhiteSpace))

TrimRight(s) == SubSeq(s, 1, Len(s) - RunBack(s, WhiteSpace))

Trim(s) == TrimRight(TrimLeft(s))

\* index of the first c in s, 0 when there is none
IndexOf(s, c) ==
    IF \E i \in 1..Len(s) : s[i] = c THEN 1 + RunNotIn(s, 1, {c}) ELSE 0

\* s.split(c)
RECURSIVE Split(_, _)
Split(s, c) ==
    IF IndexOf(s, c) = 0 THEN <<s>>
    ELSE <<SubSeq(s, 1, IndexOf(s, c) - 1)>>
           \o Split(From(s, IndexOf(s, c) + 1), c)

\* seqs[1] sep seqs[2] sep ... (Array.prototype.join)
RECURSIVE Join(_, _)
Join(seqs, sep) ==
    IF Len(seqs) = 0 THEN <<>>
    ELSE IF Len(seqs) = 1 THEN seqs[1]
    ELSE seqs[1] \o sep \o Join(Tail(seqs), sep)

\* characters of an identifier, in the order of their character codes
IdCharOrder == <<"-">> \o DigitSeq \o UpperSeq \o LowerSeq

IdChars == {IdCharOrder[i] : i \in 1..Len(IdCharOrder)}

CharCode(c) == CHOOSE i \in 1..Len(IdCharOrder) : IdCharOrder[i] = c

\* no version is longer
MAX_LENGTH == 256

\* Number.MAX_SAFE_INTEGER, 2^53 - 1
MAX_SAFE_INTEGER == Dec(Pow53)

\* NUMERICIDENTIFIER: 0|[1-9]\d*
IsNumericId(s) == AllDigits(s) /\ (s[1] # "0" \/ Len(s) = 1)

\* PRERELEASEIDENTIFIER: a numeric identifier, or \d*[a-zA-Z-][a-zA-Z0-9-]*
IsPrereleaseId(s) ==
    /\ s # <<>>
    /\ \A i \in 1..Len(s) : s[i] \in IdChars
    /\ (AllDigits(s) => IsNumericId(s))

\* BUILDIDENTIFIER: [0-9A-Za-z-]+
IsBuildId(s) == s # <<>> /\ \A i \in 1..Len(s) : s[i] \in IdChars

\* s before the first c (all of s when there is none), and after it
Before(s, c) == IF IndexOf(s, c) = 0 THEN s ELSE SubSeq(s, 1, IndexOf(s, c) - 1)

After(s, c) == IF IndexOf(s, c) = 0 THEN <<>> ELSE From(s, IndexOf(s, c) + 1)

\* MAINVERSION PRERELEASE? BUILD? on the text before "+" (main, and pre
\* when haspre) and after it (bids, when hasbuild):
\*   num . num . num [ - prerelease ids ] [ + build ids ]
FullFields(main, haspre, pre, hasbuild, bids) ==
    [ok   |-> /\ Len(main) = 3
              /\ \A i \in 1..Len(main) : IsNumericId(main[i])
              /\ (haspre => \A i \in 1..Len(pre) : IsPrereleaseId(pre[i]))
              /\ (hasbuild => \A i \in 1..Len(bids) : IsBuildId(bids[i])),
     main |-> main,
     prerelease |-> IF haspre THEN pre ELSE <<>>]

\* FULLPLAIN, v?MAINVERSION PRERELEASE? BUILD?, on all of t: the build
\* starts at the first "+", the pre-release at the first "-" before it
FullOfText(u) ==
    FullFields(Split(Before(Before(u, "+"), "-"), "."),
               IndexOf(Before(u, "+"), "-") # 0,
               Split(After(Before(u, "+"), "-"), "."),
               IndexOf(u, "+") # 0,
               Split(After(u, "+"), "."))

MatchFull(t) == FullOfText(IF At(t, 1, "v") THEN Tail(t) ELSE t)

InvalidVersion(v) == <<"Invalid Version: ">> \o v

\* the version new SemVer builds, err being the message of the TypeError it
\* throws instead
SemVerFailed(msg) ==
    [ok |-> FALSE, err |-> msg, main |-> <<>>, prerelease |-> <<>>]

SemVerOf(v, m) ==
    IF ~m.ok THEN SemVerFailed(InvalidVersion(v))
    ELSE IF NatLess(MAX_SAFE_INTEGER, m.main[1])
    THEN SemVerFailed(<<"Invalid major version">>)
    ELSE IF NatLess(MAX_SAFE_INTEGER, m.main[2])
    THEN SemVerFailed(<<"Invalid minor version">>)
    ELSE IF NatLess(MAX_SAFE_INTEGER, m.main[3])
    THEN SemVerFailed(<<"Invalid patch version">>)
    ELSE [ok |-> TRUE, err |-> <<>>, main |-> m.main,
          prerelease |-> m.prerelease]

\* new SemVer(v)
SemVerParse(v) ==
    IF Len(v) > MAX_LENGTH
    THEN SemVerFailed(<<"version is longer than ">> \o NatToString(MAX_LENGTH)
                          \o <<" characters">>)
    ELSE SemVerOf(v, MatchFull(Trim(v)))

\* SemVer.prototype.format: the build is not part of version
FormatVersion(x) ==
    Join(x.main, <<".">>)
        \o (IF x.prerelease = <<>> THEN <<>>
            ELSE <<"-">> \o Join(x.prerelease, <<".">>))

\* a < b for strings, by character codes
StringLess(a, b) ==
    \/ Len(a) < Len(b) /\ SubSeq(b, 1, Len(a)) = a
    \/ \E i \in 1..Len(a) :
          /\ i <= Len(b)
          /\ CharCode(a[i]) < CharCode(b[i])
          /\ \A j \in 1..(i - 1) : a[j] = b[j]

\* a < b for two numbers that are not negative
NumberLess(x, y) == ~x.inf /\ (y.inf \/ NatLess(x.val, y.val))

CompareNumbers(x, y) ==
    IF x = y THEN 0 ELSE IF NumberLess(x, y) THEN -1 ELSE 1

\* compareIdentifiers: numbers before text, numbers by value (+a, +b), text
\* by code
CompareIdentifiers(a, b) ==
    IF AllDigits(a) /\ AllDigits(b)
    THEN CompareNumbers(ToNumber(FALSE, StripZeros(a)),
                        ToNumber(FALSE, StripZeros(b)))
    ELSE IF AllDigits(a) THEN -1
    ELSE IF AllDigits(b) THEN 1
    ELSE IF a = b THEN 0
    ELSE IF StringLess(a, b) THEN -1 ELSE 1

\* SemVer.prototype.comparePre from identifier i on
RECURSIVE ComparePreFrom(_, _, _)
ComparePreFrom(p, q, i) ==
    IF i > Len(p) /\ i > Len(q) THEN 0
    ELSE IF i > Len(q) THEN 1
    ELSE IF i > Len(p) THEN -1
    ELSE IF p[i] = q[i] THEN ComparePreFrom(p, q, i + 1)
    ELSE CompareIdentifiers(p[i], q[i])

ComparePre(a, b) ==
    IF a.prerelease # <<>> /\ b.prerelease = <<>> THEN -1
    ELSE IF a.prerelease = <<>> /\ b.prerelease # <<>> THEN 1
    ELSE IF a.prerelease = <<>> /\ b.prerelease = <<>> THEN 0
    ELSE ComparePreFrom(a.prerelease, b.prerelease, 1)

CompareMain(a, b) ==
    IF a.main[1] # b.main[1] THEN CompareIdentifiers(a.main[1], b.main[1])
    ELSE IF a.main[2] # b.main[2]
    THEN CompareIdentifiers(a.main[2], b.main[2])
    ELSE CompareIdentifiers(a.main[3], b.main[3])

\* SemVer.prototype.compare on the versions x and y
CompareParsed(x, y) ==
    IF ~x.ok THEN Throw("TypeError", x.err)
    ELSE IF ~y.ok THEN Throw("TypeError", y.err)
    ELSE IF CompareMain(x, y) # 0 THEN Return(CompareMain(x, y))
    ELSE Return(ComparePre(x, y))

\* semver.compare(a, b): new SemVer(a).compare(new SemVer(b))
SemverCompare(a, b) == CompareParsed(SemVerParse(a), SemVerParse(b))

---------------------------------------------------------------------------
(* compareVersions                                                         *)

compareVersions(v1, v2) ==
    LET a == getSemanticVersion(v1, FALSE)
        b == getSemanticVersion(v2, FALSE)
    IN  IF a.kind = "throw" THEN a
        ELSE IF b.kind = "throw" THEN b
        ELSE SemverCompare(a.val, b.val)

---------------------------------------------------------------------------
(* The semver library: ranges (semver.validRange), in strict mode.         *)

\* range.split(/\s*\|\|\s*/), each piece to be trimmed by the caller: the
\* pieces between "||"
FirstOr(s) ==
    CHOOSE i \in 1..Len(s) :
        /\ At(s, i, "|") /\ At(s, i + 1, "|")
        /\ \A j \in 1..(i - 1) : ~(At(s, j, "|") /\ At(s, j + 1, "|"))

RECURSIVE SplitOr(_)
SplitOr(s) ==
    IF \E i \in 1..Len(s) : At(s, i, "|") /\ At(s, i + 1, "|")
    THEN <<SubSeq(s, 1, FirstOr(s) - 1)>> \o SplitOr(From(s, FirstOr(s) + 2))
    ELSE <<s>>

\* s.split(/\s+/)
RECURSIVE SplitSpace(_)
SplitSpace(s) ==
    IF ~HasCharIn(s, WhiteSpace) THEN <<s>>
    ELSE <<SubSeq(s, 1, RunNotIn(s, 1, WhiteSpace))>>
           \o SplitSpace(From(s, 1 + RunNotIn(s, 1, WhiteSpace)
                                   + RunIn(s, 1 + RunNotIn(s, 1, WhiteSpace),
                                           WhiteSpace)))

\* GTLT, ((?:<|>)?=?), at index i of s
GtltAt(s, i) ==
    LET a == IF At(s, i, "<") \/ At(s, i, ">") THEN 1 ELSE 0
        b == IF At(s, i + a, "=") THEN 1 ELSE 0
    IN  SubSeq(s, i, i + a + b - 1)

XChars == {"x", "X", "*"}

\* the characters [v=\s] that may precede a version
PrefixChars == {"v", "="} \cup WhiteSpace

\* XRANGEIDENTIFIER: 0|[1-9]\d*|x|X|\*
IsXRangeId(s) == IsNumericId(s) \/ (Len(s) = 1 /\ s[1] \in XChars)

\* isX: the identifier is missing, or is x, X or *
isX(id) == id = <<>> \/ (Len(id) = 1 /\ id[1] \in XChars)

\* XRANGEPLAIN on all of a text: M, m, p and pr are its groups, <<>> where
\* a group is undefined
PartialFields(text, comps, haspre, pre, hasbuild, bids) ==
    [ok   |-> /\ Len(comps) \in 1..3
              /\ \A i \in 1..Len(comps) : IsXRangeId(comps[i])
              /\ (haspre \/ hasbuild => Len(comps) = 3)
              /\ (haspre => \A i \in 1..Len(Split(pre, ".")) :
                                IsPrereleaseId(Split(pre, ".")[i]))
              /\ (hasbuild => \A i \in 1..Len(bids) : IsBuildId(bids[i])),
     text |-> text,
     M    |-> comps[1],
     m    |-> IF Len(comps) >= 2 THEN comps[2] ELSE <<>>,
     p    |-> IF Len(comps) >= 3 THEN comps[3] ELSE <<>>,
     pr   |-> IF haspre THEN pre ELSE <<>>]

\* u is the text after its [v=\s]* prefix
PartialOfText(text, u) ==
    PartialFields(text,
                  Split(Before(Before(u, "+"), "-"), "."),
                  IndexOf(Before(u, "+"), "-") # 0,
                  After(Before(u, "+"), "-"),
                  IndexOf(u, "+") # 0,
                  Split(After(u, "+"), "."))

ParsePartial(text) ==
    PartialOfText(text, From(text, 1 + RunIn(text, 1, PrefixChars)))

\* +id + 1, as text
PlusOne(id) ==
    IF ToNumber(FALSE, StripZeros(id)).inf
    THEN NumberToString(Infinity(FALSE))
    ELSE NumberToString(
             ToNumber(FALSE, Inc(ToNumber(FALSE, StripZeros(id)).val)))

Dot(a, b, c) == a \o <<".">> \o b \o <<".">> \o c

WithPre(v, pr) == IF pr = <<>> THEN v ELSE v \o <<"-">> \o pr

\* '>=' + lo + ' <' + hi
Between(lo, hi) == <<">", "=">> \o lo \o <<" ", "<">> \o hi

\* hyphenReplace on the versions f and t of `f - t`
HyphenText(f, t) ==
    Trim((IF isX(f.M) THEN <<>>
          ELSE IF isX(f.m) THEN <<">", "=">> \o Dot(f.M, <<"0">>, <<"0">>)
          ELSE IF isX(f.p) THEN <<">", "=">> \o Dot(f.M, f.m, <<"0">>)
          ELSE <<">", "=">> \o f.text)
         \o <<" ">>
         \o (IF isX(t.M) THEN <<>>
             ELSE IF isX(t.m)
             THEN <<"<">> \o Dot(PlusOne(t.M), <<"0">>, <<"0">>)
             ELSE IF isX(t.p) THEN <<"<">> \o Dot(t.M, PlusOne(t.m), <<"0">>)
             ELSE IF t.pr # <<>>
             THEN <<"<", "=">> \o WithPre(Dot(t.M, t.m, t.p), t.pr)
             ELSE <<"<", "=">> \o t.text))

\* HYPHENRANGE, ^\s*(XRANGEPLAIN)\s+-\s+(XRANGEPLAIN)\s*$: the indices of
\* a "-" between white space that has a version on each side
HyphenAt(r) ==
    {k \in 2..(Len(r) - 1) :
        /\ r[k] = "-" /\ r[k - 1] \in WhiteSpace /\ r[k + 1] \in WhiteSpace
        /\ ParsePartial(Trim(SubSeq(r, 1, k - 1))).ok
        /\ ParsePartial(Trim(From(r, k + 1))).ok}

HyphenReplaceAt(r, k) ==
    HyphenText(ParsePartial(Trim(SubSeq(r, 1, k - 1))),
               ParsePartial(Trim(From(r, k + 1))))

\* range.replace(re[HYPHENRANGE], hyphenReplace)
HyphenReplace(r) ==
    IF HyphenAt(r) = {} THEN r
    ELSE HyphenReplaceAt(r, CHOOSE k \in HyphenAt(r) : TRUE)

\* Lengths of what an unanchored pattern takes at index i of s: nothing
\* follows the pattern, so each part takes the first alternative that
\* matches and as much as it can.
\* kind "loose": [0-9]+|\d*[a-zA-Z-][a-zA-Z0-9-]*
\* kind "strict": 0|[1-9]\d*|\d*[a-zA-Z-][a-zA-Z0-9-]*
\* kind "build": [0-9A-Za-z-]+
IdLen(s, i, kind) ==
    IF i > Len(s) THEN 0
    ELSE IF kind = "build" THEN RunIn(s, i, IdChars)
    ELSE IF kind = "strict" /\ s[i] = "0" THEN 1
    ELSE IF s[i] \in Digits THEN RunIn(s, i, Digits)
    ELSE IF s[i] \in Letters \cup {"-"} THEN RunIn(s, i, IdChars)
    ELSE 0

\* index after (?:\.id)* at index i
RECURSIVE MoreIds(_, _, _)
MoreIds(s, i, kind) ==
    IF At(s, i, ".") /\ IdLen(s, i + 1, kind) > 0
    THEN MoreIds(s, i + 1 + IdLen(s, i + 1, kind), kind)
    ELSE i

\* index after BUILD? at index i
BuildEnd(s, i) ==
    IF At(s, i, "+") /\ IdLen(s, i + 1, "build") > 0
    THEN MoreIds(s, i + 1 + IdLen(s, i + 1, "build"), "build")
    ELSE i

\* index after PRERELEASELOOSE?, (?:-?(id(?:\.id)*))?, at index i
PreLooseEnd(s, i) ==
    IF At(s, i, "-") /\ IdLen(s, i + 1, "loose") > 0
    THEN MoreIds(s, i + 1 + IdLen(s, i + 1, "loose"), "loose")
    ELSE IF IdLen(s, i, "loose") > 0
    THEN MoreIds(s, i + IdLen(s, i, "loose"), "loose")
    ELSE i

\* index after PRERELEASE?, (?:-(id(?:\.id)*))?, at index i
PreStrictEnd(s, i) ==
    IF At(s, i, "-") /\ IdLen(s, i + 1, "strict") > 0
    THEN MoreIds(s, i + 1 + IdLen(s, i + 1, "strict"), "strict")
    ELSE i

\* index after MAINVERSIONLOOSE, (\d+)\.(\d+)\.(\d+), at index i; 0 when it
\* does not match
MainLooseEnd(s, i) ==
    LET a == i + RunIn(s, i, Digits)
        b == a + 1 + RunIn(s, a + 1, Digits)
        c == b + 1 + RunIn(s, b + 1, Digits)
    IN  IF a > i /\ At(s, a, ".") /\ b > a + 1 /\ At(s, b, ".") /\ c > b + 1
        THEN c ELSE 0

\* length of XRANGEIDENTIFIER at index i
XIdLen(s, i) ==
    IF i > Len(s) THEN 0
    ELSE IF s[i] \in XChars \cup {"0"} THEN 1
    ELSE IF s[i] \in Digits THEN RunIn(s, i, Digits)
    ELSE 0

\* index after XRANGEPLAIN less its prefix, at index i
XRangeEnd(s, i) ==
    LET a == i + XIdLen(s, i)
        b == a + 1 + XIdLen(s, a + 1)
        c == b + 1 + XIdLen(s, b + 1)
    IN  IF ~(At(s, a, ".") /\ b > a + 1) THEN a
        ELSE IF ~(At(s, b, ".") /\ c > b + 1) THEN b
        ELSE BuildEnd(s, PreStrictEnd(s, c))

\* index after (LOOSEPLAIN|XRANGEPLAIN) less its prefix, at index i
VersionEnd(s, i) ==
    IF MainLooseEnd(s, i) # 0
    THEN BuildEnd(s, PreLooseEnd(s, MainLooseEnd(s, i)))
    ELSE XRangeEnd(s, i)

\* COMPARATORTRIM, (\s*)((?:<|>)?=?)\s*(LOOSEPLAIN|XRANGEPLAIN), tried at
\* index i: the operator ends before k, the version starts at l and its
\* numbers at m
TrimMatch(s, i) ==
    LET j == i + RunIn(s, i, WhiteSpace)
        k == j + Len(GtltAt(s, j))
        l == k + RunIn(s, k, WhiteSpace)
        m == l + RunIn(s, l, PrefixChars)
    IN  [ok |-> m <= Len(s) /\ s[m] \in Digits \cup XChars,
         k |-> k, l |-> l, m |-> m]

\* range.replace(re[COMPARATORTRIM], '$1$2$3') from index cur on: the white
\* space between an operator and its version is dropped
RECURSIVE ComparatorTrimFrom(_, _)
ComparatorTrimAt(s, cur, t) ==
    SubSeq(s, cur, t.k - 1) \o SubSeq(s, t.l, VersionEnd(s, t.m) - 1)
        \o ComparatorTrimFrom(s, VersionEnd(s, t.m))

ComparatorTrimFrom(s, cur) ==
    IF \E i \in cur..Len(s) : TrimMatch(s, i).ok
    THEN ComparatorTrimAt(s, cur,
             TrimMatch(s, CHOOSE i \in cur..Len(s) :
                              /\ TrimMatch(s, i).ok
                              /\ \A j \in cur..(i - 1) : ~TrimMatch(s, j).ok))
    ELSE From(s, cur)

ComparatorTrim(s) == ComparatorTrimFrom(s, 1)

\* TILDETRIM, (\s*)(?:~>?)\s+, and CARETTRIM, (\s*)(?:\^)\s+, tried at index
\* i: the length of the operator, 0 when the pattern does not match
OpTrimLen(s, i, op) ==
    IF ~At(s, i, op) THEN 0
    ELSE IF op = "~" /\ At(s, i + 1, ">") /\ RunIn(s, i + 2, WhiteSpace) > 0
    THEN 2
    ELSE IF RunIn(s, i + 1, WhiteSpace) > 0 THEN 1
    ELSE 0

\* range.replace(re[TILDETRIM], '$1~') and range.replace(re[CARETTRIM],
\* '$1^') from index cur on
RECURSIVE OpTrimFrom(_, _, _)
OpTrimAt(s, cur, op, i) ==
    SubSeq(s, cur, i)
        \o OpTrimFrom(s, i + OpTrimLen(s, i, op)
                            + RunIn(s, i + OpTrimLen(s, i, op), WhiteSpace),
                      op)

OpTrimFrom(s, cur, op) ==
    IF \E i \in cur..Len(s) : OpTrimLen(s, i, op) > 0
    THEN OpTrimAt(s, cur, op,
                  CHOOSE i \in cur..Len(s) :
                      /\ OpTrimLen(s, i, op) > 0
                      /\ \A j \in cur..(i - 1) : OpTrimLen(s, j, op) = 0)
    ELSE From(s, cur)

OpTrim(s, op) == OpTrimFrom(s, 1, op)

\* replaceCaret: comp.replace(re[CARET], ...) with CARET ^\^XRANGEPLAIN$
CaretText(v) ==
    IF isX(v.M) THEN <<>>
    ELSE IF isX(v.m)
    THEN Between(Dot(v.M, <<"0">>, <<"0">>), Dot(PlusOne(v.M), <<"0">>, <<"0">>))
    ELSE IF isX(v.p)
    THEN (IF v.M = <<"0">>
          THEN Between(Dot(v.M, v.m, <<"0">>), Dot(v.M, PlusOne(v.m), <<"0">>))
          ELSE Between(Dot(v.M, v.m, <<"0">>),
                       Dot(PlusOne(v.M), <<"0">>, <<"0">>)))
    ELSE IF v.M = <<"0">>
    THEN (IF v.m = <<"0">>
          THEN Between(WithPre(Dot(v.M, v.m, v.p), v.pr),
                       Dot(v.M, v.m, PlusOne(v.p)))
          ELSE Between(WithPre(Dot(v.M, v.m, v.p), v.pr),
                       Dot(v.M, PlusOne(v.m), <<"0">>)))
    ELSE Between(WithPre(Dot(v.M, v.m, v.p), v.pr),
                 Dot(PlusOne(v.M), <<"0">>, <<"0">>))

replaceCaretWith(comp, v) == IF v.ok THEN CaretText(v) ELSE comp

replaceCaret(comp) ==
    IF At(comp, 1, "^") THEN replaceCaretWith(comp, ParsePartial(Tail(comp)))
    ELSE comp

\* replaceTilde: comp.replace(re[TILDE], ...) with TILDE ^(?:~>?)XRANGEPLAIN$
TildeText(v) ==
    IF isX(v.M) THEN <<>>
    ELSE IF isX(v.m)
    THEN Between(Dot(v.M, <<"0">>, <<"0">>), Dot(PlusOne(v.M), <<"0">>, <<"0">>))
    ELSE IF isX(v.p)
    THEN Between(Dot(v.M, v.m, <<"0">>), Dot(v.M, PlusOne(v.m), <<"0">>))
    ELSE Between(WithPre(Dot(v.M, v.m, v.p), v.pr),
                 Dot(v.M, PlusOne(v.m), <<"0">>))

replaceTildeWith(comp, v) == IF v.ok THEN TildeText(v) ELSE comp

replaceTilde(comp) ==
    IF At(comp, 1, "~")
    THEN replaceTildeWith(comp,
             ParsePartial(From(comp, IF At(comp, 2, ">") THEN 3 ELSE 2)))
    ELSE comp

\* replaceXRange: comp.replace(re[XRANGE], ...) with XRANGE
\* ^GTLT\s*XRANGEPLAIN$; gtlt is the operator, "" for an "=" before an x
XRangeText(comp, gtlt, v) ==
    IF isX(v.M)
    THEN (IF gtlt \in {<<">">>, <<"<">>} THEN <<"<", "0", ".", "0", ".", "0">>
          ELSE <<"*">>)
    ELSE IF gtlt # <<>> /\ (isX(v.m) \/ isX(v.p))
    THEN (IF gtlt \in {<<">">>, <<"<", "=">>}
          THEN (IF gtlt = <<">">> THEN <<">", "=">> ELSE <<"<">>)
                 \o (IF isX(v.m) THEN Dot(PlusOne(v.M), <<"0">>, <<"0">>)
                     ELSE Dot(v.M, PlusOne(v.m), <<"0">>))
          ELSE gtlt \o Dot(v.M, IF isX(v.m) THEN <<"0">> ELSE v.m, <<"0">>))
    ELSE IF isX(v.m)
    THEN Between(Dot(v.M, <<"0">>, <<"0">>), Dot(PlusOne(v.M), <<"0">>, <<"0">>))
    ELSE IF isX(v.p)
    THEN Between(Dot(v.M, v.m, <<"0">>), Dot(v.M, PlusOne(v.m), <<"0">>))
    ELSE comp

replaceXRangeWith(comp, gtlt, v) ==
    IF ~v.ok THEN comp
    ELSE XRangeText(comp,
                    IF gtlt = <<"=">> /\ (isX(v.M) \/ isX(v.m) \/ isX(v.p))
                    THEN <<>> ELSE gtlt,
                    v)

replaceXRange(comp) ==
    replaceXRangeWith(Trim(comp), GtltAt(Trim(comp), 1),
                      ParsePartial(From(Trim(comp),
                                        1 + Len(GtltAt(Trim(comp), 1)))))

\* index of the first match of STAR, (<|>)?=?\s*\*, in s; the "*" is at
\* the index StarEnd gives
StarEnd(s, i) ==
    LET a == IF At(s, i, "<") \/ At(s, i, ">") THEN i + 1 ELSE i
        b == IF At(s, a, "=") THEN a + 1 ELSE a
    IN  b + RunIn(s, b, WhiteSpace)

StarStart(s) ==
    CHOOSE i \in 1..Len(s) :
        /\ At(s, StarEnd(s, i), "*")
        /\ \A j \in 1..(i - 1) : ~At(s, StarEnd(s, j), "*")

\* replaceStars: comp.trim().replace(re[STAR], '')
replaceStarsIn(s) ==
    IF \E i \in 1..Len(s) : At(s, StarEnd(s, i), "*")
    THEN SubSeq(s, 1, StarStart(s) - 1) \o From(s, StarEnd(s, StarStart(s)) + 1)
    ELSE s

replaceStars(comp) == replaceStarsIn(Trim(comp))

\* comp.trim().split(/\s+/).map(replaceCaret).join(' ')
replaceCarets(comp) ==
    Join([i \in 1..Len(SplitSpace(Trim(comp))) |->
             replaceCaret(SplitSpace(Trim(comp))[i])], <<" ">>)

replaceTildes(comp) ==
    Join([i \in 1..Len(SplitSpace(Trim(comp))) |->
             replaceTilde(SplitSpace(Trim(comp))[i])], <<" ">>)

\* comp.split(/\s+/).map(replaceXRange).join(' ')
replaceXRanges(comp) ==
    Join([i \in 1..Len(SplitSpace(comp)) |->
             replaceXRange(SplitSpace(comp)[i])], <<" ">>)

parseComparator(comp) ==
    replaceStars(replaceXRanges(replaceTildes(replaceCarets(comp))))

\* new Comparator(comp): COMPARATOR is ^GTLT\s*(FULLPLAIN)$|^$; value is the
\* operator, less an "=", and the version
ComparatorOf(op, x) ==
    [ok    |-> x.ok,
     value |-> IF x.ok
               THEN (IF op = <<"=">> THEN <<>> ELSE op) \o FormatVersion(x)
               ELSE <<>>]

ComparatorVersion(v) ==
    IF MatchFull(v).ok THEN SemVerParse(v)
    ELSE SemVerFailed(<<"Invalid comparator">>)

Comparator(comp) ==
    IF comp = <<>> THEN [ok |-> TRUE, value |-> <<>>]
    ELSE ComparatorOf(GtltAt(comp, 1),
             ComparatorVersion(
                 From(comp, 1 + Len(GtltAt(comp, 1))
                              + RunIn(comp, 1 + Len(GtltAt(comp, 1)),
                                      WhiteSpace))))

\* Range.prototype.parseRange up to the comparators as texts: the hyphen
\* range, the three trims, then parseComparator on every piece between
\* white space
ComparatorTexts(range) ==
    SplitSpace(
        Join([i \in 1..Len(SplitSpace(range)) |->
                 parseComparator(SplitSpace(range)[i])], <<" ">>))

parseRangeOf(comps) ==
    [ok   |-> \A i \in 1..Len(comps) : Comparator(comps[i]).ok,
     text |-> Trim(Join([i \in 1..Len(comps) |-> Comparator(comps[i]).value],
                        <<" ">>))]

\* parseRange, and the text Range.prototype.format gives for its
\* comparators
parseRange(range) ==
    parseRangeOf(
        ComparatorTexts(
            OpTrim(OpTrim(ComparatorTrim(HyphenReplace(Trim(range))), "~"),
                   "^")))

\* new Range(range): ok is FALSE where it throws
RangeOfSets(sets) ==
    [ok   |-> \A i \in 1..Len(sets) : sets[i].ok,
     text |-> Trim(Join([i \in 1..Len(sets) |-> sets[i].text],
                        <<"|", "|">>))]

RangeOf(range) ==
    RangeOfSets([i \in 1..Len(SplitOr(range)) |->
                    parseRange(Trim(SplitOr(range)[i]))])

ValidRangeOf(r) ==
    IF ~r.ok THEN Null
    ELSE IF r.text = <<>> THEN Str(<<"*">>)
    ELSE Str(r.text)

\* semver.validRange(range): the range rendered again, "*" when that text
\* is empty, null when the range is not valid
ValidRange(range) == ValidRangeOf(RangeOf(range))

---------------------------------------------------------------------------
(* isSpecificVersion                                                       *)

\* a variant of LeadingDigit: the class [1-9]
LeadingDigitFromOne(s) == s # <<>> /\ s[1] \in (Digits \ {"0"})

\* version.match(/^[0-9].*/)
LeadingDigit(s) == s # <<>> /\ s[1] \in Digits

isSpecificVersion(version) ==
    IF version.t = "null" \/ version.t = "undefined" THEN Return(FALSE)
    ELSE LET range == ValidRange(version.s)
         IN  IF range = version THEN Return(TRUE)
             ELSE IF version.s # <<>> /\ range = Null THEN Return(TRUE)
             ELSE IF version.s # <<>> /\ LeadingDigit(version.s)
             THEN Return(TRUE)
             ELSE Return(FALSE)

---------------------------------------------------------------------------
(* The explored inputs.                                                    *)

\* characters of the free-form strings handed to getSemanticVersion
VersionChars == {"0", "1", ".", "-", "_", "a", "+", " "}

\* characters of the free-form strings handed to compareVersions and
\* isSpecificVersion
PlainChars == {"0", "1", ".", "-", "_", "a"}

\* characters of the free-form strings handed to compareVersions
CmpChars == {"0", "1", ".", "-", "a"}

FreeVersions == StringsUpTo(VersionChars, MaxLen)

\* canonical decimals 0..n
Nums(n) == {NatToString(k) : k \in 0..n}

\* a, a.b and a.b.c over the numbers nums
Heads(nums) ==
    nums \cup {a \o <<".">> \o b : a \in nums, b \in nums}
         \cup {a \o <<".">> \o b \o <<".">> \o c :
                   a \in nums, b \in nums, c \in nums}

\* pre-release texts: a letter, then letters and digits
PreTexts ==
    {<<l>> \o r : l \in {"a", "Z"}, r \in StringsUpTo({"a", "1"}, MaxPreLen - 1)}

\* versions with a pre-release attached by "-", ".", "_" or nothing
StructuredVersions ==
    {h \o sep \o p : h \in Heads(Nums(MaxNum)),
                     sep \in {<<>>, <<"-">>, <<".">>, <<"_">>},
                     p \in PreTexts \cup {<<>>}}

\* 2^53 + 1 and 10^21: integers a double does not hold, or does not print
\* in decimal digits
BigNums ==
    {Inc(Pow53), <<"1">> \o Repeat("0", 21)}

\* versions with a number of BigNums, with white space other than " " and
\* with a line terminator
WideVersions ==
    {n \o tl : n \in BigNums, tl \in {<<>>, <<"-", "a">>, <<".", "1", "a">>}}
        \cup {<<"1", "\f", "2">>, <<"1", ".", "\\u00a0", "2">>,
              <<"1", ".", "2", ".", "a", "\\u2028", "b">>,
              <<"1", "-", "\\u2028">>, <<"\n", "1", "\r", "2">>}

VersionInputs == FreeVersions \cup StructuredVersions \cup WideVersions

CmpTails ==
    {<<>>, <<"-", "a">>, <<"-", "1">>, <<"a", "1">>, <<"-", "_">>, <<"_">>}

\* versions whose normalized text has white space at its end, a number
\* above MAX_SAFE_INTEGER or more than MAX_LENGTH characters
WideCmpInputs ==
    {<<"1", "-", "a", "\f">>, <<"1", "-", "a", "\\u2028">>, Pow53, Dec(Pow53),
     <<"1", "-">> \o Repeat("a", MAX_LENGTH)}

CmpInputs ==
    StringsUpTo(CmpChars, MaxCmpLen)
        \cup {h \o tl : h \in Heads(Nums(1)), tl \in CmpTails}
        \cup WideCmpInputs

RangeOps == {<<"^">>, <<"~">>, <<"<">>, <<"<", "=">>, <<">">>, <<">", "=">>,
             <<"=">>}

\* one comparator, and a lower bound followed by an upper bound
RangeInputs ==
    {op \o h : op \in RangeOps, h \in Heads(Nums(MaxNum))}
        \cup {lo \o h1 \o <<" ">> \o hi \o h2 :
                  lo \in {<<">">>, <<">", "=">>}, hi \in {<<"<">>, <<"<", "=">>},
                  h1 \in Heads({<<"1">>, <<"2">>}),
                  h2 \in Heads({<<"1">>, <<"2">>})}

\* characters of x-ranges, of operators apart from their versions and of
\* alternatives
RangeChars == {"1", "x", "*", " ", ">", "=", "~", "|"}

FreeRanges == StringsUpTo(RangeChars, MaxRangeLen)

\* a hyphen range, an alternative, operators apart from their versions, a
\* partial version with an x, white space other than " "
WideRanges ==
    {<<"1", " ", "-", " ", "2">>, <<"1", ".", "2", " ", "-", " ", "2", ".", "x">>,
     <<"1", " ", "|", "|", " ", "2">>, <<"^", " ", "1", ".", "2">>,
     <<"~", ">", " ", "1">>, <<">", " ", "1", ".", "2", ".", "3">>,
     <<"1", ".", "x">>, <<"1", ".", "2", ".", "X">>, <<"1", ".", "2", ".", "3", "*">>,
     <<">", "=", "\f", "1">>, <<"1", ".", "0", ".", "0", "\\u2028">>,
     <<"v", "1", ".", "2", ".", "3">>, <<"1", ".", "2", ".", "3", "+", "b">>,
     <<"^">> \o Pow53}

SpecificInputs ==
    {Null, Undefined}
        \cup {Str(s) : s \in StringsUpTo(PlainChars, MaxLen)}
        \cup {Str(s) : s \in StructuredVersions}
        \cup {Str(s) : s \in RangeInputs}
        \cup {Str(s) : s \in FreeRanges}
        \cup {Str(s) : s \in WideRanges}

---------------------------------------------------------------------------
(* The library as a state machine: a caller invokes one exported function  *)
(* at a time and reads its outcome.                                        *)

NoCall == [fn |-> "none", args |-> <<>>]
NoResult == [kind |-> "none", name |-> "", val |-> <<>>]

Init ==
    /\ pc = "idle"
    /\ call = NoCall
    /\ result = NoResult

CallGetSemanticVersion ==
    /\ pc = "idle"
    /\ \E version \in VersionInputs, omitPreRelease \in BOOLEAN :
          /\ call' = [fn |-> "getSemanticVersion",
                      args |-> <<Str(version), omitPreRelease>>]
          /\ result' = getSemanticVersion(version, omitPreRelease)
    /\ pc' = "done"

CallCompareVersions ==
    /\ pc = "idle"
    /\ \E v1 \in CmpInputs, v2 \in CmpInputs :
          /\ call' = [fn |-> "compareVersions", args |-> <<Str(v1), Str(v2)>>]
          /\ result' = compareVersions(v1, v2)
    /\ pc' = "done"

CallIsSpecificVersion ==
    /\ pc = "idle"
    /\ \E version \in SpecificInputs :
          /\ call' = [fn |-> "isSpecificVersion", args |-> <<version>>]
          /\ result' = isSpecificVersion(version)
    /\ pc' = "done"

\* the caller has read the outcome
Finish ==
    /\ pc = "done"
    /\ pc' = "idle"
    /\ call' = NoCall
    /\ result' = NoResult

Next ==
    \/ CallGetSemanticVersion
    \/ CallCompareVersions
    \/ CallIsSpecificVersion
    \/ Finish

Spec == Init /\ [][Next]_vars

---------------------------------------------------------------------------
(* Properties.                                                             *)

\* the function fn has been called and has ended
Done(fn) == pc = "done" /\ call.fn = fn

IsSuffix(p, s) == Len(p) <= Len(s) /\ SubSeq(s, Len(s) - Len(p) + 1, Len(s)) = p

HasDigit(s) == HasCharIn(s, Digits)

\* r reads major.minor.patch or major.minor.patch-preRelease: three decimal
\* integers without leading zeros and, after the first "-", non-empty text
\* that ends the input
SemanticShape(r, input) ==
    /\ Len(Split(Before(r, "-"), ".")) = 3
    /\ \A i \in 1..3 : IsNumericId(Split(Before(r, "-"), ".")[i])
    /\ (IndexOf(r, "-") # 0 =>
          After(r, "-") # <<>> /\ IsSuffix(After(r, "-"), input))

\* C1: every result getSemanticVersion returns reads major.minor.patch or
\* major.minor.patch-preRelease, each number a decimal integer without
\* leading zeros, the pre-release non-empty and copied from the input.
C1_SemanticShape ==
    Done("getSemanticVersion") /\ result.kind = "return"
        => SemanticShape(result.val, call.args[1].s)

\* C2: getSemanticVersion throws exactly when the input holds no digit, the
\* error message embeds the input unchanged, and a result is the result for
\* the input without the text before its first digit.
C2_ThrowsIffNoDigit ==
    Done("getSemanticVersion") =>
        /\ (result.kind = "throw") <=> ~HasDigit(call.args[1].s)
        /\ result.kind = "throw" =>
              /\ result.name = "Error"
              /\ result.val = <<"Cannot convert provided version (\"">>
                                 \o call.args[1].s
                                 \o <<"\") to semantic format">>
        /\ result.kind = "return" =>
              result = getSemanticVersion(
                           From(call.args[1].s,
                                1 + RunNotIn(call.args[1].s, 1, Digits)),
                           call.args[2])

\* a call of getSemanticVersion threw on a non-empty input
C2_Witness ==
    /\ Done("getSemanticVersion")
    /\ result.kind = "throw"
    /\ call.args[1].s # <<>>

\* v read as numbers a[.b[.c]], one optional "-" or ".", and a pre-release p
\* of letters and digits that starts with a letter; without separator only
\* a.b.c is such a form
PreReleaseForm(v) ==
    LET k    == 1 + RunNotIn(v, 1, Letters)
        head == SubSeq(v, 1, k - 1)
        sep  == head # <<>> /\ head[Len(head)] \in {"-", "."}
        core == IF sep THEN SubSeq(head, 1, Len(head) - 1) ELSE head
        nums == Split(core, ".")
    IN  [ok   |-> /\ k <= Len(v)
                  /\ \A i \in k..Len(v) : v[i] \in Letters \cup Digits
                  /\ Len(nums) \in 1..3
                  /\ \A i \in 1..Len(nums) : IsNumericId(nums[i])
                  /\ (~sep => Len(nums) = 3),
         sep  |-> IF sep THEN head[Len(head)] ELSE "",
         n    |-> Len(nums),
         text |-> nums[1] \o <<".">>
                    \o (IF Len(nums) >= 2 THEN nums[2] ELSE <<"0">>) \o <<".">>
                    \o (IF Len(nums) >= 3 THEN nums[3] ELSE <<"0">>) \o <<"-">>
                    \o From(v, k)]

\* C3: a pre-release p attached to a, a.b or a.b.c by "-" or ".", or to
\* a.b.c by nothing, is rendered after a "-", the separator is dropped and
\* the missing minor and patch become 0.
C3_PreReleaseSeparators ==
    /\ Done("getSemanticVersion")
    /\ call.args[2] = FALSE
    /\ PreReleaseForm(call.args[1].s).ok
    => result = Return(PreReleaseForm(call.args[1].s).text)

\* C4: with omitPreRelease the result holds no "-"; without it the result
\* is the same text, followed by "-" and the pre-release when the input
\* produces one.
C4_OmitPreRelease ==
    Done("getSemanticVersion") /\ result.kind = "return" =>
        IF call.args[2]
        THEN ~HasCharIn(result.val, {"-"})
        ELSE LET omitted == getSemanticVersion(call.args[1].s, TRUE).val
                 parts   == VersionParts(MatchVersion(call.args[1].s))
             IN  IF parts.predef
                 THEN result.val = omitted \o <<"-">> \o parts.pre
                 ELSE result.val = omitted

\* an input with a pre-release has been normalized with omitPreRelease
C4_Witness ==
    /\ Done("getSemanticVersion")
    /\ call.args[2] = TRUE
    /\ result.kind = "return"
    /\ VersionParts(MatchVersion(call.args[1].s)).predef

\* C5: compareVersions returns -1, 0 or 1 whenever both inputs hold a digit,
\* and throws nothing but the error of getSemanticVersion.
C5_CompareFailsOnlyInNormalizer ==
    Done("compareVersions") =>
        /\ HasDigit(call.args[1].s) /\ HasDigit(call.args[2].s) =>
              result.kind = "return" /\ result.val \in {-1, 0, 1}
        /\ result.kind = "throw" =>
              /\ result.name = "Error"
              /\ \E i \in 1..2 :
                    result.val = <<"Cannot convert provided version (\"">>
                                     \o call.args[i].s
                                     \o <<"\") to semantic format">>

\* the numbers of the normalized version of v, and whether it has a
\* pre-release
TripleOf(v) ==
    LET p == VersionParts(MatchVersion(v))
    IN  [nums   |-> <<ParseInt(p.major), ParseInt(p.minor), ParseInt(p.patch)>>,
         predef |-> p.predef]

Numeric(x) == \A i \in 1..3 : ~x.nums[i].nan

\* a > b for numbers that are not NaN and not negative
Greater(a, b) ==
    IF a.inf \/ b.inf THEN a.inf /\ ~b.inf ELSE NatLess(b.val, a.val)

TripleGreater(x, y) ==
    \E i \in 1..3 :
        /\ Greater(x.nums[i], y.nums[i])
        /\ \A j \in 1..(i - 1) : x.nums[j] = y.nums[j]

\* what C6 says compareVersions(v1, v2) is: 2 where it says nothing
Expected(v1, v2) ==
    LET x == TripleOf(v1)
        y == TripleOf(v2)
    IN  IF v1 = v2 THEN 0
        ELSE IF ~(Numeric(x) /\ Numeric(y)) THEN 2
        ELSE IF TripleGreater(x, y) THEN 1
        ELSE IF TripleGreater(y, x) THEN -1
        ELSE IF ~x.predef /\ y.predef THEN 1
        ELSE IF x.predef /\ ~y.predef THEN -1
        ELSE 2

\* C6: compareVersions orders by the normalized (major, minor, patch) as
\* integers, whatever the pre-releases; on equal triples the input without
\* pre-release is the greater; compareVersions(x, x) is 0.
C6_CompareOrdersByTriple ==
    /\ Done("compareVersions")
    /\ HasDigit(call.args[1].s) /\ HasDigit(call.args[2].s)
    /\ Expected(call.args[1].s, call.args[2].s) # 2
    => result = Return(Expected(call.args[1].s, call.args[2].s))

\* C7: isSpecificVersion is false for every valid range that starts with a
\* range operator, and the rendered range equals the input only for an
\* input that is one full version.
C7_RangesAreNotSpecific ==
    /\ Done("isSpecificVersion")
    /\ call.args[1].t = "string"
    /\ ValidRange(call.args[1].s) # Null
    => /\ (call.args[1].s # <<>> /\ call.args[1].s[1] \in {"^", "~", "<", ">"}
              => result = Return(FALSE))
       /\ (ValidRange(call.args[1].s) = call.args[1]
              => SemVerParse(call.args[1].s).ok)

\* C8: isSpecificVersion does not throw, and is false for null, undefined,
\* the empty string and every string without a digit.
C8_UnparsableIsNotSpecific ==
    Done("isSpecificVersion") =>
        /\ result.kind = "return"
        /\ (call.args[1].t # "string" \/ ~HasDigit(call.args[1].s)
              => result = Return(FALSE))

\* C9: isSpecificVersion is true for every non-empty string that starts
\* with a digit, whatever the range check answers for it.
C9_LeadingDigitIsSpecific ==
    /\ Done("isSpecificVersion")
    /\ call.args[1].t = "string"
    /\ call.args[1].s # <<>>
    /\ call.args[1].s[1] \in Digits
    => result = Return(TRUE)

\* a string that starts with a digit, and that the range check accepts and
\* renders as another text, has been classified
C9_Witness ==
    /\ Done("isSpecificVersion")
    /\ call.args[1].t = "string"
    /\ call.args[1].s # <<>>
    /\ call.args[1].s[1] \in Digits
    /\ ValidRange(call.args[1].s) # Null
    /\ ValidRange(call.args[1].s) # call.args[1]

\* C10: the result of getSemanticVersion is accepted by getSemanticVersion
\* and is returned by it unchanged.
C10_Idempotent ==
    /\ Done("getSemanticVersion")
    /\ call.args[2] = FALSE
    /\ result.kind = "return"
    => getSemanticVersion(result.val, FALSE) = result

===========================================================================
